---- MODULE Spec2Model ----
(***************************************************************************)
(* Chunked model ingestion and streaming initialization of the VeriChain   *)
(* AI canister.                                                            *)
(*                                                                         *)
(* The tree holds two alternative cores for the same endpoints, of which a *)
(* build includes one (handlers.rs and handlers/mod.rs both define the     *)
(* module `handlers`):                                                     *)
(*   "stable"  : handlers.rs + state.rs + models/deepfake_detector.rs      *)
(*               (chunks in MODEL_CHUNKS, metadata in MODEL_METADATA,      *)
(*               assembly state in the DETECTOR singleton);                *)
(*   "storage" : handlers/model_management.rs + storage/model_storage.rs   *)
(*               (everything in one ModelStorage value).                   *)
(* The variable `build` is fixed by Init and selects the core whose        *)
(* handlers run.  Every canister call runs to completion before the next   *)
(* one starts, so each handler is one atomic action.                       *)
(*                                                                         *)
(* The classifiers are modelled next to the cores: the graph interpreter   *)
(* of models/inference.rs over models/onnx_model.rs, and the scoring of    *)
(* model/verichain_model.rs with types/prediction.rs.                      *)
(***************************************************************************)
EXTENDS Integers, Sequences, FiniteSets, TLC

VARIABLES
    build,           \* which core the canister was built with
    MODEL_CHUNKS,    \* state.rs: StableBTreeMap<u32, ModelChunk>
    MODEL_METADATA,  \* state.rs: Option<StoredModelMetadata>
    DETECTOR,        \* deepfake_detector.rs: struct DeepfakeDetector
    storage,         \* model_storage.rs: struct ModelStorage
    model,           \* verichain_model.rs: struct VeriChainModel
    activations,     \* inference.rs: InferenceEngine.activations
    call,            \* the last canister call: endpoint and arguments
    reply            \* what that call returned

vars == <<build, MODEL_CHUNKS, MODEL_METADATA, DETECTOR, storage, model, activations, call,
          reply>>

----------------------------------------------------------------------------
(* Bounds of the model. *)

\* chunk ids offered by callers are 0..MaxChunkId
MaxChunkId == 1
\* declared chunk counts offered by callers are 0..MaxTotalChunks
MaxTotalChunks == 2
\* declared sizes (original_size) offered by callers are 0..MaxOriginalSize
MaxOriginalSize == 2
\* batch sizes offered by callers are 0..MaxBatch and U32_MAX
MaxBatch == 2
\* an assembly buffer that holds MaxBuffer bytes or more is not grown further
MaxBuffer == 2

ChunkIds == 0..MaxChunkId

\* chunk payloads offered by callers: two payloads of different bytes and
\* different lengths
ChunkData == {<<1>>, <<2, 2>>}

(* u32 words.  TLC's integers are 32-bit, so a u32 word is written as the  *)
(* TLC integer with the same 32 bits: 0 .. 2^31-1 as themselves and        *)
(* 0xFFFFFFFF (u32::MAX) as -1.                                            *)
U32_MAX == -1

BatchSizes == (0..MaxBatch) \cup {U32_MAX}

\* a < b as unsigned 32-bit words
U32Less(a, b) == IF (a < 0) = (b < 0) THEN a < b ELSE b < 0

\* std::cmp::min on u32
U32Min(a, b) == IF U32Less(b, a) THEN b ELSE a

\* a + b on u32 wraps modulo 2^32 when overflow checks are off; the sum
\* overflowed exactly when the wrapped sum is below an operand
WrappingAdd(a, b) == a + b
AddOverflows(a, b) == U32Less(WrappingAdd(a, b), a)

\* the half-open range lo..hi of a Rust `for`, as the sequence it visits
RangeSeq(lo, hi) == [k \in 1..(IF hi > lo THEN hi - lo ELSE 0) |-> lo + k - 1]

----------------------------------------------------------------------------
(* Rust's Option<T>: None is the empty tuple, Some(x) the one-element tuple. *)

None == <<>>
Some(x) == <<x>>
IsSome(o) == o # <<>>
Unwrap(o) == o[1]

(* Result<_, String> as returned to the caller.  `msg` names the message,  *)
(* `a` and `b` carry the numbers the message or the Ok value holds.        *)
Ok(msg, a, b) == [ok |-> TRUE, msg |-> msg, a |-> a, b |-> b]
Err(msg, a) == [ok |-> FALSE, msg |-> msg, a |-> a, b |-> 0]

\* the last call as its caller knows it: the endpoint, and for an upload
\* whether the store already held that ordinal ("none", "same" bytes, "other")
Call(op, held) == [op |-> op, held |-> held]

(* utils/hash.rs and deepfake_detector.rs: hex SHA-256 of the bytes.  The  *)
(* digest is a function of the bytes alone and, SHA-256 being collision    *)
(* resistant, distinct byte strings have distinct digests.                 *)
calculate_sha256(data) == <<"sha256", data>>

Digests == {calculate_sha256(d) : d \in ChunkData}

----------------------------------------------------------------------------
(* state.rs *)

\* the ids in MODEL_CHUNKS
StoredIds == {i \in ChunkIds : IsSome(MODEL_CHUNKS[i])}

\* state::get_model_chunk
get_model_chunk(chunk_id) ==
    IF chunk_id \in ChunkIds THEN MODEL_CHUNKS[chunk_id] ELSE None

\* Vec::contains on uploaded_chunks
Contains(v, x) == \E i \in 1..Len(v) : v[i] = x

\* Vec::push followed by Vec::sort (handlers.rs: upload_model_chunk); v is
\* sorted: x goes after every element that is not greater
PushSorted(v, x) ==
    LET k == Cardinality({i \in 1..Len(v) : v[i] <= x})
    IN  SubSeq(v, 1, k) \o <<x>> \o SubSeq(v, k + 1, Len(v))

\* state::are_all_chunks_uploaded
are_all_chunks_uploaded ==
    IF IsSome(MODEL_METADATA)
    THEN Len(Unwrap(MODEL_METADATA).uploaded_chunks) = Unwrap(MODEL_METADATA).total_chunks
    ELSE FALSE

\* DeepfakeDetector::new
NewDetector ==
    [ model_data |-> <<>>,
      initialized |-> FALSE,
      streaming_init_chunks_processed |-> 0,
      streaming_init_in_progress |-> FALSE,
      streaming_init_model_data |-> <<>> ]

\* ModelStorage::new (Default)
NewStorage ==
    [ chunks |-> [i \in ChunkIds |-> None],
      metadata |-> None,
      model_data |-> None,
      upload_complete |-> FALSE,
      initialization_started |-> FALSE,
      is_initialized |-> FALSE,
      total_chunks |-> 0,
      uploaded_chunks |-> 0,
      processed_chunks |-> 0 ]

\* VeriChainModel::new
NewModel == [model_loaded |-> FALSE, model_data |-> None]

----------------------------------------------------------------------------
(* handlers.rs: the upload endpoints of the "stable" core *)

StableUnchangedByOthers == UNCHANGED <<build, storage, model, activations>>

\* what the store held under chunk_id when the call arrived: nothing, other
\* bytes, the same bytes, or the same bytes not yet in the received list
HeldStable(chunk_id, chunk_data) ==
    IF ~IsSome(MODEL_CHUNKS[chunk_id]) THEN "none"
    ELSE IF Unwrap(MODEL_CHUNKS[chunk_id]).data # chunk_data THEN "other"
    ELSE IF /\ IsSome(MODEL_METADATA)
            /\ ~Contains(Unwrap(MODEL_METADATA).uploaded_chunks, chunk_id)
    THEN "unlisted"
    ELSE "same"

\* mutant: the chunk is stored before its hash is verified (store-then-flag)
upload_model_chunk_StoreThenFlag(chunk_id, chunk_data, chunk_hash) ==
    /\ build = "stable"
    /\ call' = Call("upload_model_chunk", HeldStable(chunk_id, chunk_data))
    /\ MODEL_CHUNKS' = [MODEL_CHUNKS EXCEPT ![chunk_id] =
                           Some([data |-> chunk_data, hash |-> chunk_hash])]
    /\ reply' = IF calculate_sha256(chunk_data) # chunk_hash
                THEN Err("Chunk hash verification failed", chunk_id)
                ELSE Ok("Chunk uploaded successfully", chunk_id, 0)
    /\ UNCHANGED <<MODEL_METADATA, DETECTOR>>
    /\ StableUnchangedByOthers

\* mutant: the chunk id is pushed to uploaded_chunks without the `contains` test
upload_model_chunk_PushAlways(chunk_id, chunk_data, chunk_hash) ==
    /\ build = "stable"
    /\ call' = Call("upload_model_chunk", HeldStable(chunk_id, chunk_data))
    /\ LET calculated_hash == calculate_sha256(chunk_data)
       IN  IF calculated_hash # chunk_hash
           THEN /\ reply' = Err("Chunk hash verification failed", chunk_id)
                /\ UNCHANGED <<MODEL_CHUNKS, MODEL_METADATA>>
           ELSE /\ MODEL_CHUNKS' = [MODEL_CHUNKS EXCEPT ![chunk_id] =
                                       Some([data |-> chunk_data, hash |-> chunk_hash])]
                /\ IF /\ IsSome(MODEL_METADATA)
                      /\ Len(Unwrap(MODEL_METADATA).uploaded_chunks) <= MaxChunkId
                   THEN MODEL_METADATA' = Some([Unwrap(MODEL_METADATA) EXCEPT
                            !.uploaded_chunks = PushSorted(@, chunk_id)])
                   ELSE UNCHANGED MODEL_METADATA
                /\ reply' = Ok("Chunk uploaded successfully", chunk_id, 0)
    /\ UNCHANGED DETECTOR
    /\ StableUnchangedByOthers

upload_model_chunk(chunk_id, chunk_data, chunk_hash) ==
    /\ build = "stable"
    /\ call' = Call("upload_model_chunk", HeldStable(chunk_id, chunk_data))
    /\ LET calculated_hash == calculate_sha256(chunk_data)
       IN  IF calculated_hash # chunk_hash
           THEN /\ reply' = Err("Chunk hash verification failed", chunk_id)
                /\ UNCHANGED <<MODEL_CHUNKS, MODEL_METADATA>>
           ELSE /\ MODEL_CHUNKS' = [MODEL_CHUNKS EXCEPT ![chunk_id] =
                                       Some([data |-> chunk_data, hash |-> chunk_hash])]
                /\ IF /\ IsSome(MODEL_METADATA)
                      /\ ~Contains(Unwrap(MODEL_METADATA).uploaded_chunks, chunk_id)
                   THEN MODEL_METADATA' = Some([Unwrap(MODEL_METADATA) EXCEPT
                            !.uploaded_chunks = PushSorted(@, chunk_id)])
                   ELSE UNCHANGED MODEL_METADATA
                /\ reply' = Ok("Chunk uploaded successfully", chunk_id, 0)
    /\ UNCHANGED DETECTOR
    /\ StableUnchangedByOthers

upload_model_metadata(original_size, total_chunks) ==
    /\ build = "stable"
    /\ call' = Call("upload_model_metadata", "none")
    /\ MODEL_METADATA' = Some([ original_size |-> original_size,
                                total_chunks |-> total_chunks,
                                uploaded_chunks |-> <<>> ])
    /\ reply' = Ok("Model metadata uploaded successfully", 0, 0)
    /\ UNCHANGED <<MODEL_CHUNKS, DETECTOR>>
    /\ StableUnchangedByOthers

----------------------------------------------------------------------------
(* models/deepfake_detector.rs: assembly state of the "stable" core *)

\* the bytes of chunks ids[1], ids[2], ... of MODEL_CHUNKS, appended in that
\* order (the body of the `for chunk_id in ..` loops: extend_from_slice)
RECURSIVE ExtendFromChunks(_, _)
ExtendFromChunks(buffer, ids) ==
    IF ids = <<>> THEN buffer
    ELSE ExtendFromChunks(buffer \o Unwrap(get_model_chunk(Head(ids))).data, Tail(ids))

\* the positions of `ids` whose chunk is not in MODEL_CHUNKS
MissingPositions(ids) == {k \in 1..Len(ids) : ~IsSome(get_model_chunk(ids[k]))}

Minimum(S) == CHOOSE x \in S : \A y \in S : x <= y

\* mutant: a start on an initialized detector is accepted and restarts the
\* assembly, discarding the initialized flag
start_streaming_initialization_detector_Restart ==
    IF DETECTOR.streaming_init_in_progress
    THEN [detector |-> DETECTOR,
          result |-> Err("Streaming initialization already in progress", 0)]
    ELSE [detector |-> [DETECTOR EXCEPT !.initialized = FALSE,
                                        !.streaming_init_in_progress = TRUE,
                                        !.streaming_init_chunks_processed = 0,
                                        !.streaming_init_model_data = <<>>],
          result |-> Ok("Streaming initialization started", 0, 0)]

\* DeepfakeDetector::start_streaming_initialization: the detector and the
\* result it returns
start_streaming_initialization_detector ==
    IF DETECTOR.initialized
    THEN [detector |-> DETECTOR, result |-> Err("Model already initialized", 0)]
    ELSE IF DETECTOR.streaming_init_in_progress
    THEN [detector |-> DETECTOR,
          result |-> Err("Streaming initialization already in progress", 0)]
    ELSE [detector |-> [DETECTOR EXCEPT !.streaming_init_in_progress = TRUE,
                                        !.streaming_init_chunks_processed = 0,
                                        !.streaming_init_model_data = <<>>],
          result |-> Ok("Streaming initialization started", 0, 0)]

\* handlers.rs: initialize_model_from_chunks
initialize_model_from_chunks ==
    /\ build = "stable"
    /\ call' = Call("initialize_model_from_chunks", "none")
    /\ IF ~are_all_chunks_uploaded
       THEN /\ reply' = Err("Not all chunks have been uploaded yet", 0)
            /\ UNCHANGED DETECTOR
       ELSE /\ DETECTOR' = start_streaming_initialization_detector.detector
            /\ reply' = start_streaming_initialization_detector.result
    /\ UNCHANGED <<MODEL_CHUNKS, MODEL_METADATA>>
    /\ StableUnchangedByOthers

\* handlers.rs: start_streaming_initialization
start_streaming_initialization ==
    /\ build = "stable"
    /\ call' = Call("start_streaming_initialization", "none")
    /\ DETECTOR' = start_streaming_initialization_detector.detector
    /\ reply' = start_streaming_initialization_detector.result
    /\ UNCHANGED <<MODEL_CHUNKS, MODEL_METADATA>>
    /\ StableUnchangedByOthers

\* the batch size a continue endpoint uses when the caller passes None
DefaultBatchSize == 10

\* mutant: the batch is processed without the test that streaming is in progress
continue_streaming_initialization_NoStateTest(batch_size, overflow_checks) ==
    IF ~IsSome(MODEL_METADATA)
    THEN /\ reply' = Err("Model metadata not found", 0)
         /\ UNCHANGED DETECTOR
    ELSE
      LET total_chunks == Unwrap(MODEL_METADATA).total_chunks
          start_chunk == DETECTOR.streaming_init_chunks_processed
          end_chunk == U32Min(WrappingAdd(start_chunk, batch_size), total_chunks)
          ids == RangeSeq(start_chunk, end_chunk)
          missing == MissingPositions(ids)
      IN  IF AddOverflows(start_chunk, batch_size) /\ overflow_checks
          THEN /\ reply' = Err("trap: attempt to add with overflow", 0)
               /\ UNCHANGED DETECTOR
          ELSE IF missing # {}
          THEN \* the chunks before the missing one are already in the buffer
               /\ Len(DETECTOR.streaming_init_model_data) < MaxBuffer
               /\ DETECTOR' = [DETECTOR EXCEPT !.streaming_init_model_data =
                      ExtendFromChunks(@, SubSeq(ids, 1, Minimum(missing) - 1))]
               /\ reply' = Err("Chunk not found", ids[Minimum(missing)])
          ELSE
            LET data == ExtendFromChunks(DETECTOR.streaming_init_model_data, ids)
            IN  /\ Len(DETECTOR.streaming_init_model_data) < MaxBuffer
                /\ IF end_chunk >= total_chunks
                   THEN DETECTOR' = [DETECTOR EXCEPT
                            !.streaming_init_chunks_processed = end_chunk,
                            !.model_data = data,
                            !.streaming_init_model_data = <<>>,
                            !.initialized = TRUE,
                            !.streaming_init_in_progress = FALSE]
                   ELSE DETECTOR' = [DETECTOR EXCEPT
                            !.streaming_init_chunks_processed = end_chunk,
                            !.streaming_init_model_data = data]
                /\ reply' = Ok("continue", end_chunk, total_chunks)

(* DeepfakeDetector::continue_streaming_initialization.  `start_chunk +     *)
(* batch_size` is a u32 addition: with overflow checks (a debug build) an   *)
(* overflow panics, the call traps and the canister's state is rolled back; *)
(* without them (a release build) the sum wraps.                            *)
continue_streaming_initialization(batch_size, overflow_checks) ==
    IF ~DETECTOR.streaming_init_in_progress
    THEN /\ reply' = Err("Streaming initialization not started", 0)
         /\ UNCHANGED DETECTOR
    ELSE IF ~IsSome(MODEL_METADATA)
    THEN /\ reply' = Err("Model metadata not found", 0)
         /\ UNCHANGED DETECTOR
    ELSE
      LET total_chunks == Unwrap(MODEL_METADATA).total_chunks
          start_chunk == DETECTOR.streaming_init_chunks_processed
          end_chunk == U32Min(WrappingAdd(start_chunk, batch_size), total_chunks)
          ids == RangeSeq(start_chunk, end_chunk)
          missing == MissingPositions(ids)
      IN  IF AddOverflows(start_chunk, batch_size) /\ overflow_checks
          THEN /\ reply' = Err("trap: attempt to add with overflow", 0)
               /\ UNCHANGED DETECTOR
          ELSE IF missing # {}
          THEN \* the chunks before the missing one are already in the buffer
               /\ Len(DETECTOR.streaming_init_model_data) < MaxBuffer
               /\ DETECTOR' = [DETECTOR EXCEPT !.streaming_init_model_data =
                      ExtendFromChunks(@, SubSeq(ids, 1, Minimum(missing) - 1))]
               /\ reply' = Err("Chunk not found", ids[Minimum(missing)])
          ELSE
            LET data == ExtendFromChunks(DETECTOR.streaming_init_model_data, ids)
            IN  /\ Len(DETECTOR.streaming_init_model_data) < MaxBuffer
                /\ IF end_chunk >= total_chunks
                   THEN DETECTOR' = [DETECTOR EXCEPT
                            !.streaming_init_chunks_processed = end_chunk,
                            !.model_data = data,
                            !.streaming_init_model_data = <<>>,
                            !.initialized = TRUE,
                            !.streaming_init_in_progress = FALSE]
                   ELSE DETECTOR' = [DETECTOR EXCEPT
                            !.streaming_init_chunks_processed = end_chunk,
                            !.streaming_init_model_data = data]
                /\ reply' = Ok("continue", end_chunk, total_chunks)

\* handlers.rs: continue_model_initialization and continue_initialization
\* (the same call on the detector; both report the pair it returns)
continue_model_initialization(batch_size, overflow_checks) ==
    /\ build = "stable"
    /\ call' = Call("continue_model_initialization", "none")
    /\ continue_streaming_initialization(
           IF IsSome(batch_size) THEN Unwrap(batch_size) ELSE DefaultBatchSize,
           overflow_checks)
    /\ UNCHANGED <<MODEL_CHUNKS, MODEL_METADATA>>
    /\ StableUnchangedByOthers

\* DeepfakeDetector::initialize_model (the lazy load of analyze_image)
initialize_model ==
    IF DETECTOR.initialized
    THEN [detector |-> DETECTOR, result |-> Ok("initialized", 0, 0)]
    ELSE IF ~IsSome(MODEL_METADATA)
    THEN [detector |-> DETECTOR,
          result |-> Err("Model chunks must be uploaded before initialization", 0)]
    ELSE
      LET metadata == Unwrap(MODEL_METADATA)
          ids == RangeSeq(0, metadata.total_chunks)
          missing == MissingPositions(ids)
          model_data == ExtendFromChunks(<<>>, ids)
      IN  IF missing # {}
          THEN [detector |-> DETECTOR,
                result |-> Err("Model chunk not found", ids[Minimum(missing)])]
          ELSE IF Len(model_data) # metadata.original_size
          THEN [detector |-> DETECTOR,
                result |-> Err("Model size mismatch after loading chunks", 0)]
          ELSE [detector |-> [DETECTOR EXCEPT !.model_data = model_data,
                                              !.initialized = TRUE],
                result |-> Ok("initialized", 0, 0)]

\* DeepfakeDetector::analyze_image: loads the model if it is not initialized,
\* then decodes and scores the image; image_ok is whether that succeeds
analyze_image(image_ok) ==
    /\ build = "stable"
    /\ call' = Call("analyze_image", "none")
    /\ DETECTOR' = initialize_model.detector
    /\ reply' = IF ~initialize_model.result.ok THEN initialize_model.result
                ELSE IF image_ok THEN Ok("DetectionResult", 0, 0)
                ELSE Err("Image analysis failed", 0)
    /\ UNCHANGED <<MODEL_CHUNKS, MODEL_METADATA>>
    /\ StableUnchangedByOthers

(* state.rs: load_state, the hook of a canister upgrade (save_state, its    *)
(* counterpart before the upgrade, writes nothing).  An upgrade keeps       *)
(* stable memory, which holds the StableBTreeMap MODEL_CHUNKS, and starts   *)
(* the heap afresh: the thread-locals MODEL_METADATA and DETECTOR get their *)
(* initial values, and initialize_canister puts a new detector in place.    *)
load_state ==
    /\ build = "stable"
    /\ call' = Call("load_state", "none")
    /\ MODEL_METADATA' = None
    /\ DETECTOR' = NewDetector
    /\ reply' = Ok("upgraded", 0, 0)
    /\ UNCHANGED MODEL_CHUNKS
    /\ StableUnchangedByOthers

BatchArgs == {None} \cup {Some(b) : b \in BatchSizes}

NextStable ==
    \/ \E id \in ChunkIds, d \in ChunkData, h \in Digests : upload_model_chunk(id, d, h)
    \/ \E size \in 0..MaxOriginalSize, total \in 0..MaxTotalChunks :
           upload_model_metadata(size, total)
    \/ initialize_model_from_chunks
    \/ start_streaming_initialization
    \/ \E b \in BatchArgs, oc \in BOOLEAN : continue_model_initialization(b, oc)
    \/ \E image_ok \in BOOLEAN : analyze_image(image_ok)
    \/ load_state

----------------------------------------------------------------------------
(* storage/model_storage.rs: ModelStorage of the "storage" core.  The       *)
(* methods are operators on a ModelStorage value st that give the value    *)
(* after the call and the result returned.                                 *)

Outcome(st, result) == [storage |-> st, result |-> result]

\* HashMap::get on chunks
StorageChunk(st, chunk_id) == IF chunk_id \in ChunkIds THEN st.chunks[chunk_id] ELSE None

\* HashMap::len on chunks
ChunksLen(st) == Cardinality({i \in ChunkIds : IsSome(st.chunks[i])})

\* ModelStorage::store_chunk
store_chunk(st, chunk) ==
    IF IsSome(st.chunks[chunk.id])
    THEN Outcome(st, Err("Chunk already exists", chunk.id))
    ELSE LET inserted == [st EXCEPT !.chunks[chunk.id] =
                                        Some([data |-> chunk.data, hash |-> chunk.hash])]
             counted == [inserted EXCEPT !.uploaded_chunks = ChunksLen(inserted)]
         IN  Outcome(IF IsSome(st.metadata)
                     THEN [counted EXCEPT !.upload_complete =
                              counted.uploaded_chunks >= Unwrap(st.metadata).total_chunks]
                     ELSE counted,
                     Ok("stored", chunk.id, 0))

\* ModelStorage::store_metadata
store_metadata(st, metadata) ==
    Outcome([st EXCEPT !.total_chunks = metadata.total_chunks,
                       !.metadata = Some(metadata),
                       !.upload_complete = st.uploaded_chunks >= metadata.total_chunks],
            Ok("stored", 0, 0))

\* ModelStorage::is_upload_complete
is_upload_complete(st) == st.upload_complete /\ st.uploaded_chunks = st.total_chunks

\* ModelStorage::get_missing_chunks
get_missing_chunks(st) ==
    LET ids == RangeSeq(0, st.total_chunks)
    IN  SelectSeq(ids, LAMBDA i : ~IsSome(StorageChunk(st, i)))

\* ModelStorage::get_upload_stats (without the size in MB)
get_upload_stats(st) ==
    [ total_chunks |-> st.total_chunks,
      uploaded_chunks |-> st.uploaded_chunks,
      missing_chunks |-> get_missing_chunks(st),
      is_complete |-> st.upload_complete ]

\* ModelStorage::start_initialization
start_initialization(st) ==
    IF ~is_upload_complete(st)
    THEN Outcome(st, Err("Cannot start initialization: upload not complete", 0))
    ELSE IF st.initialization_started
    THEN Outcome(st, Err("Initialization already started", 0))
    ELSE Outcome([st EXCEPT !.initialization_started = TRUE, !.processed_chunks = 0],
                 Ok("started", 0, 0))

\* the loop of process_chunks_batch over ids: the buffer and the processed
\* count when it ends or returns at the first missing chunk
RECURSIVE ProcessLoop(_, _, _, _)
ProcessLoop(st, model_data, processed, ids) ==
    IF ids = <<>>
    THEN [model_data |-> model_data, processed |-> processed, missing |-> None]
    ELSE IF IsSome(StorageChunk(st, Head(ids)))
    THEN ProcessLoop(st, model_data \o Unwrap(StorageChunk(st, Head(ids))).data,
                     processed + 1, Tail(ids))
    ELSE [model_data |-> model_data, processed |-> processed, missing |-> Some(Head(ids))]

(* ModelStorage::process_chunks_batch.  The buffer is taken out of          *)
(* self.model_data (leaving None) and put back only after the loop, so an   *)
(* early return drops it.  The value returned is the u32 difference         *)
(* end_chunk - start_chunk, which underflows when total_chunks fell below   *)
(* processed_chunks: a panic with overflow checks, a wrapped value without. *)
process_chunks_batch(st, batch_size, overflow_checks) ==
    IF ~st.initialization_started
    THEN Outcome(st, Err("Initialization not started", 0))
    ELSE IF st.is_initialized
    THEN Outcome(st, Err("Model already initialized", 0))
    ELSE
      LET start_chunk == st.processed_chunks
          end_chunk == U32Min(WrappingAdd(start_chunk, batch_size), st.total_chunks)
          taken == IF IsSome(st.model_data) THEN Unwrap(st.model_data) ELSE <<>>
          loop == ProcessLoop(st, taken, st.processed_chunks, RangeSeq(start_chunk, end_chunk))
          after == [st EXCEPT !.processed_chunks = loop.processed]
      IN  IF IsSome(loop.missing)
          THEN Outcome([after EXCEPT !.model_data = None],
                       Err("Missing chunk during initialization", Unwrap(loop.missing)))
          ELSE IF U32Less(end_chunk, start_chunk) /\ overflow_checks
          THEN Outcome(st, Err("trap: attempt to subtract with overflow", 0))
          ELSE Outcome([after EXCEPT !.model_data = Some(loop.model_data),
                                     !.is_initialized =
                                         (st.is_initialized \/ loop.processed >= st.total_chunks)],
                       Ok("processed", end_chunk - start_chunk, 0))

----------------------------------------------------------------------------
(* handlers/model_management.rs and model/verichain_model.rs *)

StorageUnchangedByOthers ==
    UNCHANGED <<build, MODEL_CHUNKS, MODEL_METADATA, DETECTOR, activations>>

\* utils: verify_chunk_integrity(data, expected_hash)
verify_chunk_integrity(data, expected_hash) == calculate_sha256(data) = expected_hash

\* utils: validate_chunk_id(chunk_id, total_chunks)
validate_chunk_id(chunk_id, total_chunks) == chunk_id < total_chunks

\* utils: validate_batch_size(batch_size): the accepted range is [1, 200]
validate_batch_size(batch_size) ==
    /\ ~U32Less(batch_size, 1)
    /\ ~U32Less(200, batch_size)

\* calculate_optimal_batch_size
calculate_optimal_batch_size(total_chunks) ==
    IF total_chunks <= 200 THEN 50
    ELSE IF total_chunks <= 350 THEN 75
    ELSE 100

(* VeriChainModel::load_from_bytes.  `loads` stands for the two tests the   *)
(* bytes must pass: a length of 300 to 400 million bytes and the parse.     *)
load_from_bytes(m, model_data, loads) ==
    IF loads
    THEN [model |-> [m EXCEPT !.model_data = Some(model_data), !.model_loaded = TRUE],
          result |-> Ok("loaded", 0, 0)]
    ELSE [model |-> m, result |-> Err("Failed to load model", 0)]

HeldStorage(chunk_id, data) ==
    IF ~IsSome(storage.chunks[chunk_id]) THEN "none"
    ELSE IF Unwrap(storage.chunks[chunk_id]).data = data THEN "same" ELSE "other"

handle_upload_chunk(chunk_id, data, expected_hash) ==
    /\ build = "storage"
    /\ call' = Call("handle_upload_chunk", HeldStorage(chunk_id, data))
    /\ IF ~verify_chunk_integrity(data, expected_hash)
       THEN /\ reply' = Err("Chunk integrity verification failed", chunk_id)
            /\ UNCHANGED storage
       ELSE IF /\ IsSome(storage.metadata)
               /\ ~validate_chunk_id(chunk_id, Unwrap(storage.metadata).total_chunks)
       THEN /\ reply' = Err("Invalid chunk id", chunk_id)
            /\ UNCHANGED storage
       ELSE LET stored == store_chunk(storage,
                              [id |-> chunk_id, data |-> data, hash |-> expected_hash])
            IN  /\ storage' = stored.storage
                /\ reply' = IF stored.result.ok
                            THEN Ok("Chunk uploaded successfully", chunk_id, 0)
                            ELSE stored.result
    /\ UNCHANGED model
    /\ StorageUnchangedByOthers

handle_upload_metadata(original_size, total_chunks) ==
    /\ build = "storage"
    /\ call' = Call("handle_upload_metadata", "none")
    /\ storage' = store_metadata(storage, [ original_size |-> original_size,
                                            total_chunks |-> total_chunks ]).storage
    /\ reply' = Ok("Metadata uploaded successfully", 0, 0)
    /\ UNCHANGED model
    /\ StorageUnchangedByOthers

\* the tail shared by handle_initialize_model and
\* handle_continue_initialization: load the model once the storage is
\* initialized
LoadIfInitialized(batch, loads, done_msg, progress_msg) ==
    IF ~batch.result.ok
    THEN /\ storage' = batch.storage
         /\ reply' = batch.result
         /\ UNCHANGED model
    ELSE IF batch.storage.is_initialized /\ IsSome(batch.storage.model_data)
    THEN LET loaded == load_from_bytes(model, Unwrap(batch.storage.model_data), loads)
         IN  /\ storage' = batch.storage
             /\ model' = loaded.model
             /\ reply' = IF loaded.result.ok
                         THEN Ok(done_msg, batch.result.a, 0)
                         ELSE loaded.result
    ELSE /\ storage' = batch.storage
         /\ reply' = Ok(progress_msg, batch.result.a, batch.storage.processed_chunks)
         /\ UNCHANGED model

handle_initialize_model(loads, overflow_checks) ==
    /\ build = "storage"
    /\ call' = Call("handle_initialize_model", "none")
    /\ IF ~is_upload_complete(storage)
       THEN /\ reply' = Err("Cannot initialize: chunks missing", Len(get_missing_chunks(storage)))
            /\ UNCHANGED <<storage, model>>
       ELSE LET started == start_initialization(storage)
            IN  IF ~started.result.ok
                THEN /\ reply' = started.result
                     /\ UNCHANGED <<storage, model>>
                ELSE LET batch == process_chunks_batch(started.storage,
                                      calculate_optimal_batch_size(started.storage.total_chunks),
                                      overflow_checks)
                     IN  LoadIfInitialized(batch, loads,
                             "Model initialized and loaded successfully",
                             "Initialization started")
    /\ StorageUnchangedByOthers

handle_continue_initialization(batch_size, loads, overflow_checks) ==
    /\ build = "storage"
    /\ call' = Call("handle_continue_initialization", "none")
    /\ IF storage.is_initialized
       THEN /\ reply' = Err("Model already initialized", 0)
            /\ UNCHANGED <<storage, model>>
       ELSE LET size == IF IsSome(batch_size) THEN Unwrap(batch_size)
                        ELSE calculate_optimal_batch_size(storage.total_chunks)
            IN  IF ~validate_batch_size(size)
                THEN /\ reply' = Err("Invalid batch size", 0)
                     /\ UNCHANGED <<storage, model>>
                ELSE LoadIfInitialized(process_chunks_batch(storage, size, overflow_checks),
                         loads, "Model initialization completed", "Processed")
    /\ StorageUnchangedByOthers

NextStorage ==
    \/ \E id \in ChunkIds, d \in ChunkData, h \in Digests : handle_upload_chunk(id, d, h)
    \/ \E size \in 0..MaxOriginalSize, total \in 0..MaxTotalChunks :
           handle_upload_metadata(size, total)
    \/ \E loads \in BOOLEAN, oc \in BOOLEAN : handle_initialize_model(loads, oc)
    \/ \E b \in BatchArgs, loads \in BOOLEAN, oc \in BOOLEAN :
           handle_continue_initialization(b, loads, oc)

----------------------------------------------------------------------------
(* models/inference.rs and models/onnx_model.rs: the graph interpreter.     *)
(*                                                                         *)
(* An f32 is a fixed-point number: the integer v stands for v / Unit.  A    *)
(* product or quotient is cut to that resolution.  NaN is the f32 that      *)
(* 0.0 / 0.0 yields; no other non-finite value arises from the tensors      *)
(* below.                                                                   *)

Unit == 1000

NaN == -2147483647

FAdd(a, b) == IF a = NaN \/ b = NaN THEN NaN ELSE a + b
FMul(a, b) == IF a = NaN \/ b = NaN THEN NaN ELSE (a * b) \div Unit
\* f32::max returns the other operand when one is NaN
FMax(a, b) == IF a = NaN THEN b ELSE IF b = NaN THEN a ELSE IF a > b THEN a ELSE b

RECURSIVE FSum(_)
FSum(t) == IF Len(t) = 0 THEN 0 ELSE FAdd(FSum(SubSeq(t, 1, Len(t) - 1)), t[Len(t)])

\* e^0, e^-1, ..., e^-8 at the resolution of Unit
ExpTable == <<1000, 368, 135, 50, 18, 7, 2, 1, 0>>

\* f32::exp for an argument x <= 0, linear between the tabulated points
exp(x) ==
    LET k == (-x) \div Unit
        f == (-x) % Unit
    IN  IF k >= Len(ExpTable) - 1 THEN 0
        ELSE ExpTable[k + 1] - ((ExpTable[k + 1] - ExpTable[k + 2]) * f) \div Unit

\* HashMap<String, Vec<f32>>: a function whose domain is the set of keys
EmptyMap == [name \in {} |-> <<>>]
Insert(map, key, value) ==
    [name \in (DOMAIN map) \cup {key} |-> IF name = key THEN value ELSE map[name]]
Get(map, key) == IF key \in DOMAIN map THEN Some(map[key]) ELSE None

\* ONNXNode::new
ONNXNode(name, op_type, inputs, outputs) ==
    [name |-> name, op_type |-> op_type, inputs |-> inputs, outputs |-> outputs]

\* ONNXNode::validate
validate(node) ==
    /\ node.name # ""
    /\ node.op_type # ""
    /\ node.inputs # <<>>
    /\ node.outputs # <<>>

\* ONNXNode::get_operation
get_operation(node) ==
    IF node.op_type \in {"Conv", "MatMul", "Add", "Relu", "Softmax", "Reshape",
                         "GlobalAveragePool"}
    THEN Some(node.op_type)
    ELSE None

\* VeriChainONNXModel::get_weight
get_weight(m, name) == Get(m.weights, name)

\* the outcome of a step of the interpreter: the table and Ok(()) or Err
Done(table) == [activations |-> table, err |-> None]
Failed(table, msg) == [activations |-> table, err |-> Some(msg)]

\* a Result<Vec<f32>, String> of the two kernels
Tensor(t) == [ok |-> TRUE, tensor |-> t, msg |-> ""]
NoTensor(msg) == [ok |-> FALSE, tensor |-> <<>>, msg |-> msg]

Maximum(S) == CHOOSE x \in S : \A y \in S : x >= y

\* InferenceEngine::simplified_conv
simplified_conv(input, weight) ==
    IF Len(input) = 0 \/ Len(weight) = 0 THEN NoTensor("Empty input or weight tensor")
    ELSE LET output_size == Maximum({Len(input) \div 4, 1})
         IN  Tensor([i \in 1..output_size |->
                        FMul(input[(((i - 1) * 4) % Len(input)) + 1],
                             weight[((i - 1) % Len(weight)) + 1])])

\* InferenceEngine::matrix_multiply
matrix_multiply(a, b) ==
    IF Len(a) = 0 \/ Len(b) = 0 THEN NoTensor("Empty matrix")
    ELSE LET output_size == IF Len(a) < Len(b) THEN Len(a) ELSE Len(b)
         IN  Tensor([i \in 1..output_size |-> FMul(a[i], b[((i - 1) % Len(b)) + 1])])

\* InferenceEngine::softmax
softmax(input) ==
    IF Len(input) = 0 THEN <<>>
    ELSE IF \E i \in 1..Len(input) : input[i] = NaN THEN [i \in 1..Len(input) |-> NaN]
    ELSE LET max_val == Maximum({input[i] : i \in 1..Len(input)})
             exp_vals == [i \in 1..Len(input) |-> exp(input[i] - max_val)]
             sum == FSum(exp_vals)
         IN  IF sum = 0 THEN [i \in 1..Len(input) |-> Unit \div Len(input)]
             ELSE [i \in 1..Len(input) |-> (exp_vals[i] * Unit) \div sum]

\* InferenceEngine::execute_conv
execute_conv(table, m, node) ==
    IF Len(node.inputs) < 2 THEN Failed(table, "Conv requires at least 2 inputs")
    ELSE IF ~IsSome(Get(table, node.inputs[1])) THEN Failed(table, "Conv input not found")
    ELSE IF ~IsSome(get_weight(m, node.inputs[2])) THEN Failed(table, "Conv weight not found")
    ELSE LET output == simplified_conv(table[node.inputs[1]], m.weights[node.inputs[2]])
         IN  IF ~output.ok THEN Failed(table, output.msg)
             ELSE IF Len(node.outputs) = 0 THEN Failed(table, "Conv node has no outputs")
             ELSE Done(Insert(table, node.outputs[1], output.tensor))

\* InferenceEngine::execute_matmul
execute_matmul(table, m, node) ==
    IF Len(node.inputs) < 2 THEN Failed(table, "MatMul requires 2 inputs")
    ELSE IF ~IsSome(Get(table, node.inputs[1])) THEN Failed(table, "MatMul input not found")
    ELSE IF ~IsSome(get_weight(m, node.inputs[2])) THEN Failed(table, "MatMul weight not found")
    ELSE LET output == matrix_multiply(table[node.inputs[1]], m.weights[node.inputs[2]])
         IN  IF ~output.ok THEN Failed(table, output.msg)
             ELSE IF Len(node.outputs) = 0 THEN Failed(table, "MatMul node has no outputs")
             ELSE Done(Insert(table, node.outputs[1], output.tensor))

\* InferenceEngine::execute_add
execute_add(table, node) ==
    IF Len(node.inputs) < 2 THEN Failed(table, "Add requires 2 inputs")
    ELSE IF ~IsSome(Get(table, node.inputs[1])) THEN Failed(table, "Add input A not found")
    ELSE IF ~IsSome(Get(table, node.inputs[2])) THEN Failed(table, "Add input B not found")
    ELSE LET input_a == table[node.inputs[1]]
             input_b == table[node.inputs[2]]
         IN  IF Len(input_a) # Len(input_b)
             THEN Failed(table, "Add inputs must have same length")
             ELSE IF Len(node.outputs) = 0 THEN Failed(table, "Add node has no outputs")
             ELSE Done(Insert(table, node.outputs[1],
                              [i \in 1..Len(input_a) |-> FAdd(input_a[i], input_b[i])]))

\* InferenceEngine::execute_relu
execute_relu(table, node) ==
    IF Len(node.inputs) = 0 THEN Failed(table, "ReLU requires 1 input")
    ELSE IF ~IsSome(Get(table, node.inputs[1])) THEN Failed(table, "ReLU input not found")
    ELSE LET input == table[node.inputs[1]]
         IN  IF Len(node.outputs) = 0 THEN Failed(table, "ReLU node has no outputs")
             ELSE Done(Insert(table, node.outputs[1],
                              [i \in 1..Len(input) |-> FMax(input[i], 0)]))

\* InferenceEngine::execute_softmax
execute_softmax(table, node) ==
    IF Len(node.inputs) = 0 THEN Failed(table, "Softmax requires 1 input")
    ELSE IF ~IsSome(Get(table, node.inputs[1])) THEN Failed(table, "Softmax input not found")
    ELSE IF Len(node.outputs) = 0 THEN Failed(table, "Softmax node has no outputs")
    ELSE Done(Insert(table, node.outputs[1], softmax(table[node.inputs[1]])))

\* InferenceEngine::execute_reshape
execute_reshape(table, node) ==
    IF Len(node.inputs) = 0 THEN Failed(table, "Reshape requires 1 input")
    ELSE IF ~IsSome(Get(table, node.inputs[1])) THEN Failed(table, "Reshape input not found")
    ELSE IF Len(node.outputs) = 0 THEN Failed(table, "Reshape node has no outputs")
    ELSE Done(Insert(table, node.outputs[1], table[node.inputs[1]]))

\* InferenceEngine::execute_global_avg_pool: the mean of no value is 0.0 / 0.0
execute_global_avg_pool(table, node) ==
    IF Len(node.inputs) = 0 THEN Failed(table, "GlobalAveragePool requires 1 input")
    ELSE IF ~IsSome(Get(table, node.inputs[1]))
         THEN Failed(table, "GlobalAveragePool input not found")
    ELSE LET input == table[node.inputs[1]]
             sum == FSum(input)
             output == IF Len(input) = 0 \/ sum = NaN THEN <<NaN>>
                       ELSE <<sum \div Len(input)>>
         IN  IF Len(node.outputs) = 0 THEN Failed(table, "GlobalAveragePool node has no outputs")
             ELSE Done(Insert(table, node.outputs[1], output))

\* InferenceEngine::execute_node
execute_node(table, m, node) ==
    IF ~validate(node) THEN Failed(table, "Invalid node")
    ELSE IF ~IsSome(get_operation(node)) THEN Failed(table, "Unsupported operation")
    ELSE CASE node.op_type = "Conv" -> execute_conv(table, m, node)
           [] node.op_type = "MatMul" -> execute_matmul(table, m, node)
           [] node.op_type = "Add" -> execute_add(table, node)
           [] node.op_type = "Relu" -> execute_relu(table, node)
           [] node.op_type = "Softmax" -> execute_softmax(table, node)
           [] node.op_type = "Reshape" -> execute_reshape(table, node)
           [] node.op_type = "GlobalAveragePool" -> execute_global_avg_pool(table, node)

\* the loop of execute_inference over model.graph_nodes, from node k on; the
\* first node that fails ends it
RECURSIVE ExecuteGraph(_, _, _)
ExecuteGraph(table, m, k) ==
    IF k > Len(m.graph_nodes) THEN Done(table)
    ELSE LET step == execute_node(table, m, m.graph_nodes[k])
         IN  IF IsSome(step.err) THEN step ELSE ExecuteGraph(step.activations, m, k + 1)

\* Iterator::max_by over the scores: of several equal maxima the last one
max_by(scores) ==
    CHOOSE i \in 1..Len(scores) :
        /\ \A j \in 1..Len(scores) : scores[j] <= scores[i]
        /\ \A j \in (i + 1)..Len(scores) : scores[j] < scores[i]

\* the labels of execute_inference by index: 0 real, 1 AI generated, 2 deepfake
Classification == <<"Real", "AI Generated", "Deepfake">>

\* the end of execute_inference: softmax of the first three values of the
\* final output, the class of the largest and its probability
Classify(final_output) ==
    IF Len(final_output) < 3 THEN Err("Invalid output tensor size", 0)
    ELSE LET probabilities == softmax(SubSeq(final_output, 1, 3))
             max_idx == max_by(probabilities)
         IN  Ok(Classification[max_idx], probabilities[max_idx], probabilities)

(* The tensors HashMap::values() may yield last.  The order of a HashMap is *)
(* unspecified: it follows the keys' hashes under the map's own random      *)
(* hasher and the bucket count, which clear() keeps from earlier calls.     *)
LastValues(table) == {table[name] : name \in DOMAIN table}

(* InferenceEngine::execute_inference.  intermediate_results is cleared     *)
(* here and written nowhere, so it is always empty and not kept.            *)
execute_inference(m, input) ==
    LET run == ExecuteGraph(Insert(EmptyMap, "input", input), m, 1)
        table == run.activations
    IN  /\ call' = Call("execute_inference", <<m, input>>)
        /\ activations' = table
        /\ IF IsSome(run.err) THEN reply' = Err(Unwrap(run.err), 0)
           ELSE IF "output" \in DOMAIN table THEN reply' = Classify(table["output"])
           ELSE IF DOMAIN table = {} THEN reply' = Err("No output tensor found", 0)
           ELSE \E final_output \in LastValues(table) : reply' = Classify(final_output)
        /\ UNCHANGED <<build, MODEL_CHUNKS, MODEL_METADATA, DETECTOR, storage, model>>

\* InferenceEngine::new: a fresh engine takes the place of the old one
new ==
    /\ call' = Call("new", <<>>)
    /\ activations' = EmptyMap
    /\ reply' = Ok("new", 0, 0)
    /\ UNCHANGED <<build, MODEL_CHUNKS, MODEL_METADATA, DETECTOR, storage, model>>

----------------------------------------------------------------------------

(* types/prediction.rs and the end of VeriChainModel::run_onnx_inference    *)

\* f.max(lo).min(hi)
Clamp(x, lo, hi) == IF x < lo THEN (IF lo > hi THEN hi ELSE lo) ELSE IF x > hi THEN hi ELSE x

\* RawScores::new
RawScores_new(real, ai_generated, deepfake) ==
    [ real |-> Clamp(real, Unit \div 100, (98 * Unit) \div 100),
      ai_generated |-> Clamp(ai_generated, Unit \div 100, (98 * Unit) \div 100),
      deepfake |-> Clamp(deepfake, Unit \div 100, (98 * Unit) \div 100) ]

\* VeriChainModel::apply_softmax
apply_softmax(logits) ==
    LET max_logit == Maximum({logits[i] : i \in 1..3})
        exp_logits == [i \in 1..3 |-> exp(logits[i] - max_logit)]
        sum_exp == FSum(exp_logits)
        prob(i) == Clamp((exp_logits[i] * Unit) \div sum_exp,
                         Unit \div 100, (98 * Unit) \div 100)
    IN  RawScores_new(prob(1), prob(2), prob(3))

\* RawScores::get_max_score_and_label
get_max_score_and_label(raw_scores) ==
    LET scores == << <<raw_scores.ai_generated, "AIGenerated">>,
                     <<raw_scores.deepfake, "Deepfake">>,
                     <<raw_scores.real, "Real">> >>
    IN  scores[max_by([i \in 1..3 |-> scores[i][1]])]

\* PredictionResult::new
PredictionResult_new(raw_scores) ==
    LET max == get_max_score_and_label(raw_scores)
    IN  [ label |-> max[2],
          confidence |-> Clamp(max[1], Unit \div 10, (99 * Unit) \div 100),
          raw_scores |-> raw_scores ]

\* the logits compute_vit_inference hands to apply_softmax
Logits == [1..3 -> {-8 * Unit, -Unit, 0}]

\* a PredictionResult as a reply: label, confidence, and the raw scores in
\* the order real, AI generated, deepfake
Prediction(logits) ==
    LET result == PredictionResult_new(apply_softmax(logits))
    IN  Ok(result.label, result.confidence,
           <<result.raw_scores.real, result.raw_scores.ai_generated,
             result.raw_scores.deepfake>>)

\* VeriChainModel::run_onnx_inference, from the logits on
run_onnx_inference(logits) ==
    /\ call' = Call("run_onnx_inference", logits)
    /\ reply' = Prediction(logits)
    /\ UNCHANGED <<build, MODEL_CHUNKS, MODEL_METADATA, DETECTOR, storage, model, activations>>

(* handlers/analysis.rs: handle_analyze.  `valid` is the verdict of          *)
(* validate_image_data and `decodes` that of preprocess_image_from_bytes;    *)
(* logits is what compute_vit_inference hands on.  The model is passed by    *)
(* shared reference and nothing is written.                                  *)
handle_analyze(valid, decodes, logits) ==
    /\ build = "storage"
    /\ call' = Call("handle_analyze", "none")
    /\ reply' = IF ~valid THEN Err("Invalid image data", 0)
                ELSE IF ~model.model_loaded
                THEN Err("Model is not loaded. Please initialize the model first.", 0)
                ELSE IF ~IsSome(model.model_data)
                THEN Err("Model data not available after loading", 0)
                ELSE IF ~decodes THEN Err("Failed to decode image", 0)
                ELSE Prediction(logits)
    /\ UNCHANGED <<storage, model>>
    /\ StorageUnchangedByOthers

----------------------------------------------------------------------------

Init ==
    /\ build \in {"stable", "storage"}
    /\ MODEL_CHUNKS = [i \in ChunkIds |-> None]
    /\ MODEL_METADATA = None
    /\ DETECTOR = NewDetector
    /\ storage = NewStorage
    /\ model = NewModel
    /\ activations = EmptyMap
    /\ call = Call("init", "none")
    /\ reply = Ok("init", 0, 0)

Next ==
    \/ NextStable
    \/ NextStorage
    \/ \E valid, decodes \in BOOLEAN, logits \in Logits : handle_analyze(valid, decodes, logits)

Spec == Init /\ [][Next]_vars

----------------------------------------------------------------------------
(* Assembly of a fixed, complete fragment set: the set was declared and    *)
(* every fragment 0 .. N-1 uploaded before the first state, and only the    *)
(* initialization endpoints are called.                                    *)

MaxDeclared == IF MaxTotalChunks <= MaxChunkId + 1 THEN MaxTotalChunks ELSE MaxChunkId + 1

InitAssembly ==
    \E count \in 0..MaxDeclared, size \in 0..MaxOriginalSize :
    \E payload \in [0..(count - 1) -> ChunkData] :
      LET chunks == [i \in ChunkIds |->
                        IF i < count
                        THEN Some([data |-> payload[i], hash |-> calculate_sha256(payload[i])])
                        ELSE None]
      IN  /\ build \in {"stable", "storage"}
          /\ MODEL_CHUNKS = IF build = "stable" THEN chunks ELSE [i \in ChunkIds |-> None]
          /\ MODEL_METADATA =
                IF build = "stable"
                THEN Some([ original_size |-> size, total_chunks |-> count,
                            uploaded_chunks |-> RangeSeq(0, count) ])
                ELSE None
          /\ DETECTOR = NewDetector
          /\ storage =
                IF build = "storage"
                THEN [NewStorage EXCEPT
                        !.chunks = chunks,
                        !.metadata = Some([original_size |-> size, total_chunks |-> count]),
                        !.upload_complete = TRUE,
                        !.total_chunks = count,
                        !.uploaded_chunks = count]
                ELSE NewStorage
          /\ model = NewModel
          /\ activations = EmptyMap
          /\ call = Call("init", "none")
          /\ reply = Ok("init", 0, 0)

NextAssembly ==
    \/ initialize_model_from_chunks
    \/ start_streaming_initialization
    \/ \E b \in BatchArgs, oc \in BOOLEAN : continue_model_initialization(b, oc)
    \/ \E loads \in BOOLEAN, oc \in BOOLEAN : handle_initialize_model(loads, oc)
    \/ \E b \in BatchArgs, loads \in BOOLEAN, oc \in BOOLEAN :
           handle_continue_initialization(b, loads, oc)

SpecAssembly == InitAssembly /\ [][NextAssembly]_vars

----------------------------------------------------------------------------
(* The two classifiers on their own: one engine, called with graph models  *)
(* and input tensors drawn from small sets and replaced by a fresh engine   *)
(* at any moment, and the scoring of logits drawn from a small set.         *)

\* mutant: the Conv node reads a tensor name that nothing provides
create_simplified_model_UnknownInput ==
    [ graph_nodes |->
        << ONNXNode("input", "Input", <<>>, <<"input_tensor">>),
           ONNXNode("feature_extract", "Conv", <<"image", "conv_weight">>,
                    <<"features">>),
           ONNXNode("classifier", "MatMul", <<"features", "classifier_weight">>,
                    <<"logits">>),
           ONNXNode("output", "Softmax", <<"logits">>, <<"output">>) >>,
      weights |->
        Insert(Insert(EmptyMap, "conv_weight", [i \in 1..1000 |-> Unit \div 10]),
               "classifier_weight", [i \in 1..3000 |-> Unit \div 100]) ]

\* DeepfakeDetector::create_simplified_model, the model built at construction
create_simplified_model ==
    [ graph_nodes |->
        << ONNXNode("input", "Input", <<>>, <<"input_tensor">>),
           ONNXNode("feature_extract", "Conv", <<"input_tensor", "conv_weight">>,
                    <<"features">>),
           ONNXNode("classifier", "MatMul", <<"features", "classifier_weight">>,
                    <<"logits">>),
           ONNXNode("output", "Softmax", <<"logits">>, <<"output">>) >>,
      weights |->
        Insert(Insert(EmptyMap, "conv_weight", [i \in 1..1000 |-> Unit \div 10]),
               "classifier_weight", [i \in 1..3000 |-> Unit \div 100]) ]

\* a model whose last node stores its tensor under "output"
NamedOutputModel ==
    [ graph_nodes |->
        << ONNXNode("scale", "MatMul", <<"input", "scale_weight">>, <<"scaled">>),
           ONNXNode("shift", "Add", <<"scaled", "input">>, <<"shifted">>),
           ONNXNode("output", "Reshape", <<"shifted">>, <<"output">>) >>,
      weights |-> Insert(EmptyMap, "scale_weight", <<2 * Unit, Unit, 3 * Unit>>) ]

\* a model none of whose nodes stores a tensor under "output"
UnnamedOutputModel ==
    [ graph_nodes |->
        << ONNXNode("positive", "Relu", <<"input">>, <<"features">>),
           ONNXNode("sum", "Add", <<"features", "input">>, <<"logits">>) >>,
      weights |-> Insert(EmptyMap, "unused_weight", <<Unit>>) ]

\* a model whose second node names a weight the model does not hold
MissingWeightModel ==
    [ graph_nodes |->
        << ONNXNode("copy", "Reshape", <<"input">>, <<"hidden">>),
           ONNXNode("classifier", "MatMul", <<"hidden", "classifier_weight">>,
                    <<"output">>) >>,
      weights |-> Insert(EmptyMap, "other_weight", <<Unit>>) ]

\* a model of the remaining operations
PooledModel ==
    [ graph_nodes |->
        << ONNXNode("feature_extract", "Conv", <<"input", "conv_weight">>, <<"features">>),
           ONNXNode("pool", "GlobalAveragePool", <<"input">>, <<"pooled">>),
           ONNXNode("probabilities", "Softmax", <<"input">>, <<"output">>) >>,
      weights |-> Insert(EmptyMap, "conv_weight", <<Unit \div 2>>) ]

\* a model whose second node reads a tensor no node produces, followed by a
\* node all of whose inputs are there
MissingTensorModel ==
    [ graph_nodes |->
        << ONNXNode("positive", "Relu", <<"input">>, <<"features">>),
           ONNXNode("classifier", "MatMul", <<"hidden", "classifier_weight">>,
                    <<"logits">>),
           ONNXNode("output", "Softmax", <<"features">>, <<"output">>) >>,
      weights |-> Insert(EmptyMap, "classifier_weight", <<Unit>>) ]

\* a model whose Conv node declares a bias as its third input; the model
\* holds no such weight
BiasedConvModel ==
    [ graph_nodes |->
        << ONNXNode("feature_extract", "Conv", <<"input", "conv_weight", "conv_bias">>,
                    <<"features">>),
           ONNXNode("output", "Reshape", <<"features">>, <<"output">>) >>,
      weights |-> Insert(EmptyMap, "conv_weight", <<Unit>>) ]

\* VeriChainONNXModel::add_node
add_node(m, node) == [m EXCEPT !.graph_nodes = Append(@, node)]

\* a model to which a node of an operation the engine does not know was added
UnknownOperationModel ==
    add_node([graph_nodes |-> <<>>, weights |-> EmptyMap],
             ONNXNode("activation", "Gelu", <<"input">>, <<"output">>))

GraphModels ==
    {create_simplified_model, NamedOutputModel, UnnamedOutputModel, MissingWeightModel,
     MissingTensorModel, BiasedConvModel, UnknownOperationModel, PooledModel}

\* the input tensors: the empty one, every one of three scores and one of
\* eight
Scores == {-Unit, 0, Unit}
InputTensors == {<<>>} \cup [1..3 -> Scores] \cup {[i \in 1..8 |-> Unit]}

InitInference ==
    /\ Init
    /\ build = "stable"

NextInference ==
    \/ \E m \in GraphModels, input \in InputTensors : execute_inference(m, input)
    \/ new
    \/ \E logits \in Logits : run_onnx_inference(logits)

SpecInference == InitInference /\ [][NextInference]_vars

----------------------------------------------------------------------------
(* Vocabulary of the design: the fragment store and the assembly state of  *)
(* either core.                                                            *)

\* the error of the taxonomy a reply carries
IntegrityMismatch(r) ==
    /\ ~r.ok
    /\ r.msg \in {"Chunk hash verification failed", "Chunk integrity verification failed"}

MissingFragment(r, ordinal) ==
    /\ ~r.ok
    /\ r.msg \in {"Chunk not found", "Missing chunk during initialization"}
    /\ r.a = ordinal

\* get_fragment(ordinal): the bytes stored under the ordinal, if any
get_fragment(ordinal) ==
    LET chunk == IF build = "stable" THEN MODEL_CHUNKS[ordinal] ELSE storage.chunks[ordinal]
    IN  IF IsSome(chunk) THEN Some(Unwrap(chunk).data) ELSE None

\* handlers.rs: get_upload_status (without the size in MB)
get_upload_status ==
    IF IsSome(MODEL_METADATA)
    THEN LET metadata == Unwrap(MODEL_METADATA)
         IN  [ total_chunks |-> metadata.total_chunks,
               uploaded_chunks |-> Len(metadata.uploaded_chunks),
               missing_chunks |-> SelectSeq(RangeSeq(0, metadata.total_chunks),
                                      LAMBDA id : ~Contains(metadata.uploaded_chunks, id)),
               is_complete |-> are_all_chunks_uploaded ]
    ELSE [ total_chunks |-> 0, uploaded_chunks |-> 0,
           missing_chunks |-> <<>>, is_complete |-> FALSE ]

\* upload_status() of the core in use
upload_status ==
    IF build = "stable" THEN get_upload_status ELSE get_upload_stats(storage)

\* the assembly state of the core in use
InProgress ==
    IF build = "stable" THEN DETECTOR.streaming_init_in_progress
    ELSE storage.initialization_started /\ ~storage.is_initialized

Complete == IF build = "stable" THEN DETECTOR.initialized ELSE storage.is_initialized

next_ordinal ==
    IF build = "stable" THEN DETECTOR.streaming_init_chunks_processed
    ELSE storage.processed_chunks

\* the accumulated buffer (no buffer is the empty buffer)
buffer ==
    IF build = "stable" THEN DETECTOR.streaming_init_model_data
    ELSE IF IsSome(storage.model_data) THEN Unwrap(storage.model_data) ELSE <<>>

\* the assembled artifact of a Complete state
artifact == IF build = "stable" THEN DETECTOR.model_data ELSE buffer

Declared == IF build = "stable" THEN IsSome(MODEL_METADATA) ELSE IsSome(storage.metadata)

declared_fragment_count ==
    IF build = "stable" THEN Unwrap(MODEL_METADATA).total_chunks ELSE storage.total_chunks

declared_total_size ==
    IF build = "stable" THEN Unwrap(MODEL_METADATA).original_size
    ELSE Unwrap(storage.metadata).original_size

\* a step of advance(batch_size), whatever it returns
Advance(batch_size) ==
    \/ \E oc \in BOOLEAN : continue_model_initialization(Some(batch_size), oc)
    \/ \E loads, oc \in BOOLEAN : handle_continue_initialization(Some(batch_size), loads, oc)

\* min(n + batch_size, count) over the naturals, for n <= count
BatchEnd(n, batch_size, count) ==
    IF U32Less(batch_size, count - n) THEN n + batch_size ELSE count

\* the ordinals below `count` that have no stored fragment
Absent(from, to) == {i \in from..(to - 1) : i \notin ChunkIds \/ ~IsSome(get_fragment(i))}

\* the stored fragments 0 .. count-1 in ordinal order, one after the other
RECURSIVE InOrder(_)
InOrder(count) ==
    IF count = 0 THEN <<>> ELSE InOrder(count - 1) \o Unwrap(get_fragment(count - 1))

----------------------------------------------------------------------------
(* C1: an advance(batch_size) made in InProgress while some ordinal of      *)
(* [next_ordinal, min(next_ordinal + batch_size, declared_fragment_count))  *)
(* has no stored fragment fails with MissingFragment naming that ordinal    *)
(* and leaves next_ordinal and the buffer as they were: no fragment of the  *)
(* failed batch is committed.                                              *)
C1_FailedAdvanceCommitsNothing ==
    [][ \A b \in {x \in BatchSizes : validate_batch_size(x)} :
          ( /\ InProgress /\ Declared
            /\ next_ordinal <= declared_fragment_count
            /\ Absent(next_ordinal, BatchEnd(next_ordinal, b, declared_fragment_count)) # {}
            /\ Advance(b) )
          => /\ MissingFragment(reply', Minimum(Absent(next_ordinal,
                     BatchEnd(next_ordinal, b, declared_fragment_count))))
             /\ next_ordinal' = next_ordinal
             /\ buffer' = buffer
      ]_vars

(* C2: the assembly becomes Complete only with a buffer whose length is the *)
(* declared total size; fragments whose sizes sum to another total never    *)
(* reach Complete.                                                         *)
C2_CompleteOnlyAtDeclaredSize ==
    [][ (~Complete /\ Complete' /\ Declared' /\ declared_fragment_count' >= 1)
          => Len(artifact') = declared_total_size'
      ]_vars

(* C4: the final artifact is the stored fragments' bytes concatenated in    *)
(* increasing ordinal order 0, 1, ..., N-1, whatever the order of upload.   *)
C4_ArtifactIsOrdinalOrderConcatenation ==
    [][ (~Complete /\ Complete')
          => /\ Declared'
             /\ Absent(0, declared_fragment_count)' = {}
             /\ artifact' = InOrder(declared_fragment_count)'
      ]_vars

(* C3: for a fixed complete set of N fragments, every sequence of          *)
(* successful advance calls that reaches Complete, whatever the batch       *)
(* sizes, yields the artifact a single advance(N) yields: fragments         *)
(* 0 .. N-1 in order.  Checked under SpecAssembly, where the set is fixed.  *)
C3_BatchSizeInvariant ==
    Complete => artifact = InOrder(declared_fragment_count)

----------------------------------------------------------------------------
(* C5: put_fragment with an expected digest that is not the digest of the  *)
(* bytes returns IntegrityMismatch and changes nothing: the fragment       *)
(* store, the received ordinals, the metadata and the assembly state are    *)
(* what they were before the call.                                         *)
C5_IntegrityMismatchMutatesNothing ==
    [][ \A id \in ChunkIds, d \in ChunkData, h \in Digests :
          (h # calculate_sha256(d) /\
             (upload_model_chunk(id, d, h) \/ handle_upload_chunk(id, d, h)))
          => /\ IntegrityMismatch(reply')
             /\ UNCHANGED <<MODEL_CHUNKS, MODEL_METADATA, DETECTOR, storage, model>>
      ]_vars

\* a rejected upload arrived at a store that holds fragments and a declaration
C5_Witness ==
    /\ IntegrityMismatch(reply)
    /\ call.op \in {"upload_model_chunk", "handle_upload_chunk"}
    /\ \E i \in ChunkIds : IsSome(get_fragment(i))
    /\ upload_status.total_chunks > 0

----------------------------------------------------------------------------
\* put_fragment(ordinal, bytes, digest) of either core
put_fragment(ordinal, bytes, digest) ==
    \/ upload_model_chunk(ordinal, bytes, digest)
    \/ handle_upload_chunk(ordinal, bytes, digest)

\* put_metadata(size, count) of either core
put_metadata(size, count) ==
    \/ upload_model_metadata(size, count)
    \/ handle_upload_metadata(size, count)

\* the ordinals the core counts as received
received_ordinals ==
    IF build = "stable"
    THEN IF IsSome(MODEL_METADATA)
         THEN {Unwrap(MODEL_METADATA).uploaded_chunks[k] :
                  k \in 1..Len(Unwrap(MODEL_METADATA).uploaded_chunks)}
         ELSE {}
    ELSE {i \in ChunkIds : IsSome(storage.chunks[i])}

\* the ordinals that have a stored fragment
stored_ordinals == {i \in ChunkIds : IsSome(get_fragment(i))}

(* C6: re-uploading an ordinal already received, with a digest matching    *)
(* the new bytes, is acknowledged as a success and get_fragment(ordinal)    *)
(* then returns the bytes of the latest upload.                            *)
C6_ReuploadAcceptedLastWriteWins ==
    [][ \A id \in ChunkIds, d \in ChunkData :
          ( /\ IsSome(get_fragment(id))
            /\ Declared => id < declared_fragment_count
            /\ put_fragment(id, d, calculate_sha256(d)) )
          => /\ reply'.ok
             /\ get_fragment(id)' = Some(d)
      ]_vars

C8_IsCompleteIffAllReceived ==
    Declared =>
       ( upload_status.is_complete
           <=> /\ upload_status.uploaded_chunks = declared_fragment_count
               /\ upload_status.missing_chunks = <<>>
               /\ Absent(0, declared_fragment_count) = {} )

(* C9: whenever metadata has been declared, every received ordinal lies in  *)
(* [0, declared_fragment_count).                                            *)
C9_ReceivedOrdinalsBelowDeclaredCount ==
    Declared => \A i \in received_ordinals : i < declared_fragment_count

(* C10: put_metadata(count = N) after fragments 0 .. N-1 were uploaded      *)
(* gives the upload_status that declaring first gives (N received, none     *)
(* missing, is_complete), and put_metadata never makes a fragment of the    *)
(* store be reported as missing.                                           *)
C10_DeclarationAfterFragments ==
    [][ \A size \in 0..MaxOriginalSize, count \in 0..MaxTotalChunks :
          put_metadata(size, count)
          => /\ \A k \in 1..Len(upload_status'.missing_chunks) :
                    upload_status'.missing_chunks[k] \notin stored_ordinals
             /\ stored_ordinals = 0..(count - 1)
                  => /\ upload_status'.uploaded_chunks = count
                     /\ upload_status'.missing_chunks = <<>>
                     /\ upload_status'.is_complete
      ]_vars

----------------------------------------------------------------------------
\* the assembly has not been started
NotStarted == ~InProgress /\ ~Complete

\* the state-misuse errors of the taxonomy a reply carries
AlreadyInProgress(r) ==
    /\ ~r.ok
    /\ r.msg \in {"Streaming initialization already in progress",
                  "Initialization already started"}

AlreadyComplete(r) ==
    /\ ~r.ok
    /\ r.msg = "Model already initialized"

NotStartedError(r) ==
    /\ ~r.ok
    /\ r.msg \in {"Streaming initialization not started", "Initialization not started"}

\* a step of begin_streaming() that got past the endpoint's own test that
\* the upload is complete
BeginStreaming ==
    \/ start_streaming_initialization
    \/ are_all_chunks_uploaded /\ initialize_model_from_chunks
    \/ /\ is_upload_complete(storage)
       /\ \E loads, oc \in BOOLEAN : handle_initialize_model(loads, oc)

(* C11: begin_streaming succeeds only from NotStarted and then leaves the   *)
(* assembly InProgress at next_ordinal 0 with an empty buffer; called while *)
(* InProgress it fails with AlreadyInProgress, called when Complete it      *)
(* fails with AlreadyComplete, and both failures change nothing.            *)
C11_BeginStreamingOnlyFromNotStarted ==
    [][ BeginStreaming
          => /\ reply'.ok => NotStarted
             /\ (build = "stable" /\ reply'.ok)
                  => (InProgress' /\ next_ordinal' = 0 /\ buffer' = <<>>)
             /\ (build = "storage" /\ start_initialization(storage).result.ok)
                  => LET started == start_initialization(storage).storage
                     IN  /\ started.initialization_started /\ ~started.is_initialized
                         /\ started.processed_chunks = 0
                         /\ started.model_data = None
             /\ InProgress => /\ AlreadyInProgress(reply')
                              /\ UNCHANGED <<DETECTOR, storage, model>>
             /\ Complete => /\ AlreadyComplete(reply')
                            /\ UNCHANGED <<DETECTOR, storage, model>>
      ]_vars

----------------------------------------------------------------------------
\* a state-misuse error of the taxonomy
StateMisuse(r) == AlreadyInProgress(r) \/ AlreadyComplete(r) \/ NotStartedError(r)

\* the batch size argument is absent or in the accepted range
Accepted(arg) == arg = None \/ validate_batch_size(Unwrap(arg))

\* a step of the continue-initialization endpoint with argument arg
AdvanceCall(arg) ==
    \/ \E oc \in BOOLEAN : continue_model_initialization(arg, oc)
    \/ \E loads, oc \in BOOLEAN : handle_continue_initialization(arg, loads, oc)

----------------------------------------------------------------------------
InvalidBatchSize(r) ==
    /\ ~r.ok
    /\ r.msg = "Invalid batch size"

(* C13: an advance with a batch size outside [1, 200] (0, or any value      *)
(* above 200) is rejected with InvalidBatchSize and consumes no fragment:   *)
(* next_ordinal and the buffer are unchanged.                               *)
C13_BatchSizeOutsideRangeRejected ==
    [][ \A b \in {x \in BatchSizes : ~validate_batch_size(x)} :
          ( /\ InProgress /\ Declared
            /\ next_ordinal < declared_fragment_count
            /\ Advance(b) )
          => /\ InvalidBatchSize(reply')
             /\ next_ordinal' = next_ordinal
             /\ buffer' = buffer
      ]_vars

----------------------------------------------------------------------------
\* metadata is declared for N >= 1 fragments and the store holds the
\* fragments 0 .. N-1 and no other
AllFragmentsStored ==
    /\ Declared
    /\ declared_fragment_count >= 1
    /\ stored_ordinals = 0..(declared_fragment_count - 1)

\* a step of the initialization endpoint (begin_streaming, and in the
\* storage core the first batch with it)
InitializationEndpoint ==
    \/ initialize_model_from_chunks
    \/ \E loads, oc \in BOOLEAN : handle_initialize_model(loads, oc)

(* C14: once metadata is declared and every fragment 0 .. N-1 is stored,   *)
(* the initialization endpoint called on a NotStarted assembly starts it,   *)
(* and every advance with an accepted batch size then consumes at least    *)
(* one more fragment or completes the assembly, so that is_initialized is   *)
(* reached after at most N advances.                                       *)
C14_InitializationMakesProgress ==
    [][ /\ (NotStarted /\ AllFragmentsStored /\ InitializationEndpoint)
             => (InProgress' \/ Complete')
        /\ \A arg \in {x \in BatchArgs : Accepted(x)} :
             (InProgress /\ AllFragmentsStored /\ AdvanceCall(arg))
             => (Complete' \/ (InProgress' /\ next_ordinal' > next_ordinal))
      ]_vars

----------------------------------------------------------------------------
(* C15: across a restart or upgrade the stored fragments and the            *)
(* fragment-set metadata survive and the assembly re-enters NotStarted with *)
(* an empty buffer: upload_status after the restart is upload_status before *)
(* it.  Stated for a restart that finds the declared fragment set stored.   *)
C15_UploadSurvivesRestart ==
    [][ (AllFragmentsStored /\ load_state)
          => /\ \A i \in ChunkIds : get_fragment(i)' = get_fragment(i)
             /\ Declared' = Declared
             /\ Declared => /\ declared_fragment_count' = declared_fragment_count
                            /\ declared_total_size' = declared_total_size
             /\ upload_status' = upload_status
             /\ NotStarted' /\ buffer' = <<>>
      ]_vars

----------------------------------------------------------------------------
\* two results of execute_inference are equal
SameResult(r, s) ==
    /\ r.ok = s.ok
    /\ r.msg = s.msg
    /\ r.a = s.a
    /\ r.ok => r.b = s.b

\* the table a fresh engine holds after running m on input
FreshTable(m, input) == ExecuteGraph(Insert(EmptyMap, "input", input), m, 1).activations

(* C16: a run of a graph on an input returns what the previous run on this  *)
(* engine returned when that one was given the same graph and input, and    *)
(* after every run, also one that follows a failed run, the activation      *)
(* table is the one a fresh engine builds for this graph and input.         *)
C16_RunIsDeterministic ==
    [][ \A m \in GraphModels, input \in InputTensors :
          execute_inference(m, input) =>
            /\ activations' = FreshTable(m, input)
            /\ (call.op = "execute_inference" /\ call.held = <<m, input>>) =>
                   SameResult(reply', reply) ]_vars

----------------------------------------------------------------------------
\* the last call classified: its reply holds a label, a confidence and the
\* three class probabilities in the order real, AI generated, deepfake
Classified == call.op \in {"execute_inference", "run_onnx_inference"} /\ reply.ok

(* C17: the three reported class probabilities each lie in [0.01, 0.98]     *)
(* and their sum is 1.0, up to the three cuts to the resolution of Unit.    *)
C17_ProbabilitiesClampedAndNormalized ==
    Classified =>
        /\ \A i \in 1..3 : /\ reply.b[i] >= Unit \div 100
                           /\ reply.b[i] <= (98 * Unit) \div 100
        /\ FSum(reply.b) >= Unit - 3
        /\ FSum(reply.b) <= Unit + 3

----------------------------------------------------------------------------
\* the class a label names
LabelClass(label) ==
    CASE label = "Real" -> "real"
      [] label \in {"AI Generated", "AIGenerated"} -> "ai_generated"
      [] label = "Deepfake" -> "deepfake"

(* C18: the reported label is the class of the largest class score, the     *)
(* confidence is that score, and among equal largest scores the label is    *)
(* AI generated before deepfake before real.  The scores are in the order   *)
(* real, AI generated, deepfake.                                            *)
C18_LabelIsArgmaxWithFixedTieBreak ==
    Classified =>
        LET top == Maximum({reply.b[i] : i \in 1..3})
        IN  /\ reply.a = top
            /\ LabelClass(reply.msg) = IF reply.b[2] = top THEN "ai_generated"
                                       ELSE IF reply.b[3] = top THEN "deepfake"
                                       ELSE "real"

----------------------------------------------------------------------------
(* C19: a call of the initialization endpoint for a declared set of at      *)
(* least one fragment that returns an error leaves the storage's            *)
(* initialization_started flag, processed count, buffer and is_initialized  *)
(* flag as they were before the call.                                       *)
C19_FailedInitializeMutatesNothing ==
    [][ ( /\ Declared
          /\ declared_fragment_count >= 1
          /\ \E loads, oc \in BOOLEAN : handle_initialize_model(loads, oc)
          /\ ~reply'.ok ) =>
            /\ storage'.initialization_started = storage.initialization_started
            /\ storage'.processed_chunks = storage.processed_chunks
            /\ storage'.model_data = storage.model_data
            /\ storage'.is_initialized = storage.is_initialized ]_vars

----------------------------------------------------------------------------
\* an analysis request for a well-formed image
AnalysisRequest ==
    \/ \E image_ok \in BOOLEAN : analyze_image(image_ok)
    \/ \E decodes \in BOOLEAN, logits \in Logits : handle_analyze(TRUE, decodes, logits)

\* the errors that say the model is not ready
ModelNotReady(r) ==
    /\ ~r.ok
    /\ r.msg \in {"Model is not loaded. Please initialize the model first.",
                  "Model chunks must be uploaded before initialization",
                  "Model chunk not found",
                  "Model size mismatch after loading chunks"}

(* C20: an analysis request made while the artifact of a declared set of at *)
(* least one fragment is not Complete fails with ModelNotReady, and leaves  *)
(* is_initialized, is_streaming, next_ordinal, the buffer and the artifact  *)
(* as they were.                                                            *)
C20_AnalysisBeforeCompleteFails ==
    [][ (~Complete /\ Declared /\ declared_fragment_count >= 1 /\ AnalysisRequest) =>
            /\ ModelNotReady(reply')
            /\ Complete' = Complete
            /\ InProgress' = InProgress
            /\ next_ordinal' = next_ordinal
            /\ buffer' = buffer
            /\ artifact' = artifact ]_vars

----------------------------------------------------------------------------
\* the sum of the sizes of the stored fragments with ordinals in [0, n)
RECURSIVE StoredSize(_)
StoredSize(n) ==
    IF n <= 0 THEN 0
    ELSE StoredSize(n - 1) +
         (IF n - 1 \in ChunkIds /\ IsSome(get_fragment(n - 1))
          THEN Len(Unwrap(get_fragment(n - 1))) ELSE 0)

(* C21: in every InProgress state the length of the buffer is the sum of    *)
(* the sizes of the stored fragments with ordinals in [0, next_ordinal).    *)
C21_BufferLengthMatchesConsumedFragments ==
    InProgress => Len(buffer) = StoredSize(next_ordinal)

----------------------------------------------------------------------------
\* DeepfakeDetector::get_initialization_status (without the sizes in MB)
get_initialization_status ==
    [ is_initialized |-> DETECTOR.initialized,
      is_streaming |-> DETECTOR.streaming_init_in_progress,
      processed_chunks |-> DETECTOR.streaming_init_chunks_processed,
      total_chunks |-> IF IsSome(MODEL_METADATA) THEN Unwrap(MODEL_METADATA).total_chunks
                       ELSE 0,
      initialization_started |->
          DETECTOR.streaming_init_in_progress \/ DETECTOR.initialized ]

\* ModelStorage::get_initialization_progress
get_initialization_progress(st) ==
    [processed_chunks |-> st.processed_chunks, total_chunks |-> st.total_chunks]

\* status() of the core in use: the fragments consumed and the declared count
status ==
    IF build = "stable"
    THEN [ processed_chunks |-> get_initialization_status.processed_chunks,
           total_chunks |-> get_initialization_status.total_chunks ]
    ELSE get_initialization_progress(storage)

\* a call of an advance endpoint, the first batch of the storage core included
AdvanceEndpoint ==
    call'.op \in {"continue_model_initialization", "handle_initialize_model",
                  "handle_continue_initialization"}

(* C22: an advance that makes the state Complete leaves the number of       *)
(* fragments consumed equal to the declared fragment count, and in every    *)
(* state status() reports a processed count that does not exceed the total  *)
(* count.                                                                   *)
C22_CompleteAtDeclaredCount ==
    /\ [][ (~Complete /\ Complete' /\ AdvanceEndpoint) =>
               status'.processed_chunks = status'.total_chunks ]_vars
    /\ [](status.processed_chunks <= status.total_chunks)

----------------------------------------------------------------------------
\* the assembly state as one of the three names
AssemblyState ==
    IF Complete THEN "Complete" ELSE IF InProgress THEN "InProgress" ELSE "NotStarted"

\* a call of the public interface: every endpoint but the upgrade hook
PublicCall == call'.op # "load_state"

(* C23: no call of the public interface takes the assembly state from       *)
(* InProgress or Complete back to NotStarted, or from Complete back to      *)
(* InProgress.                                                              *)
C23_AssemblyStateOnlyMovesForward ==
    [][ PublicCall =>
          /\ AssemblyState \in {"InProgress", "Complete"} => AssemblyState' # "NotStarted"
          /\ AssemblyState = "Complete" => AssemblyState' = "Complete" ]_vars


\* a begin request made while the assembly is in progress with at least one
\* fragment consumed was refused and the progress is still there
C23_Witness ==
    /\ InProgress
    /\ next_ordinal >= 1
    /\ call.op \in {"start_streaming_initialization", "initialize_model_from_chunks",
                    "handle_initialize_model"}
    /\ ~reply.ok


----------------------------------------------------------------------------
\* the numbers a successful continue-initialization call reports: the pair
\* (completed, total) of the stable core; "Processed {} chunks. Progress:
\* {}/{}" of the storage core, or "Processed {} chunks in final batch" when
\* the call completed the assembly
Progress ==
    IF build = "stable" THEN {reply.a, reply.b}
    ELSE IF storage.is_initialized THEN {reply.a}
    ELSE {reply.a, reply.b, storage.total_chunks}

\* the stored fragments from .. to-1 in ordinal order, one after the other
RECURSIVE Consumed(_, _)
Consumed(from, to) ==
    IF to <= from THEN <<>>
    ELSE Consumed(from, to - 1) \o
         (IF to - 1 \in ChunkIds /\ IsSome(get_fragment(to - 1))
          THEN Unwrap(get_fragment(to - 1)) ELSE <<>>)

(* C24: a successful advance(b) made in InProgress (and not Complete) from  *)
(* next_ordinal = n                                                         *)
(* <= N, N the declared count, moves next_ordinal to min(n + b, N), appends *)
(* exactly the fragments n .. min(n + b, N) - 1 to the buffer, and reports  *)
(* the number consumed by the call min(n + b, N) - n, the new next_ordinal  *)
(* and N.                                                                   *)
C24_AdvanceReportsBatchProgress ==
    [][ \A b \in BatchSizes :
          (/\ InProgress /\ ~Complete /\ Declared
           /\ next_ordinal <= declared_fragment_count
           /\ Advance(b)
           /\ reply'.ok)
          => LET n == next_ordinal
                 N == declared_fragment_count
                 end == IF U32Less(b, N - n) THEN n + b ELSE N
             IN  /\ next_ordinal' = end
                 /\ (IF Complete' THEN artifact' ELSE buffer') = buffer \o Consumed(n, end)
                 /\ {end - n, end, N} \subseteq Progress' ]_vars


----------------------------------------------------------------------------
(* C25: an advance that fails on a missing fragment leaves the assembly     *)
(* InProgress with the buffer still the in-order concatenation of the       *)
(* fragments before next_ordinal, and an advance that completes from such a *)
(* state yields the artifact fragment 0 .. N-1 in order: recovery by        *)
(* uploading the missing fragment and advancing again duplicates and loses  *)
(* no byte.                                                                 *)
C25_RecoveryAfterFailedAdvance ==
    [][ \A b \in BatchSizes :
          (/\ InProgress /\ ~Complete /\ Declared
           /\ next_ordinal <= declared_fragment_count
           /\ buffer = Consumed(0, next_ordinal)
           /\ Advance(b))
          => /\ (\E k \in 0..MaxTotalChunks : MissingFragment(reply', k))
                  => (InProgress' /\ ~Complete'
                      /\ (buffer = Consumed(0, next_ordinal))')
             /\ (reply'.ok /\ Complete')
                  => artifact' = InOrder(declared_fragment_count) ]_vars


----------------------------------------------------------------------------
(* C26: once the assembly is Complete (is_initialized is true) with a       *)
(* non-empty artifact, no later call of the public interface                *)
(* (put_fragment, put_metadata, begin, advance or analysis) changes the     *)
(* artifact bytes.                                                          *)
C26_ArtifactReadOnlyAfterAssembly ==
    [][ (Complete /\ artifact # <<>> /\ PublicCall) => artifact' = artifact ]_vars


----------------------------------------------------------------------------
\* the names of a sequence of names
Names(seq) == {seq[i] : i \in 1..Len(seq)}

\* the output names of the nodes before node k of model m
EarlierOutputs(m, k) == UNION {Names(m.graph_nodes[j].outputs) : j \in 1..(k - 1)}

\* the name under which execute_inference stores the input tensor
InputName == "input"

\* the model of the last run of the engine
RunModel == call.held[1]

(* C27: in the graph model built at construction, every input name of       *)
(* every node is a weight name, the output name of a node earlier in the    *)
(* node sequence, or the name under which the engine stores the input       *)
(* tensor.  Checked on the model handed to the engine.                      *)
C27_BuiltGraphInputsAreKnownNames ==
    (call.op = "execute_inference" /\ RunModel = create_simplified_model)
    => \A k \in 1..Len(RunModel.graph_nodes) :
           Names(RunModel.graph_nodes[k].inputs) \subseteq
               (DOMAIN RunModel.weights \cup EarlierOutputs(RunModel, k) \cup {InputName})

\* the engine has run the built model on a non-empty input
C27_Witness ==
    /\ call.op = "execute_inference"
    /\ RunModel = create_simplified_model
    /\ call.held[2] # <<>>


----------------------------------------------------------------------------
(* C28: a run of the engine on the model built at construction with a       *)
(* non-empty input tensor executes all four nodes without error: it         *)
(* returns a classification, and the activation table then holds the        *)
(* output of each node, the final one with at least 3 scores.               *)
C28_BuiltGraphRunsToTheEnd ==
    (/\ call.op = "execute_inference"
     /\ RunModel = create_simplified_model
     /\ call.held[2] # <<>>)
    => /\ reply.ok
       /\ {"input_tensor", "features", "logits", "output"} \subseteq DOMAIN activations
       /\ Len(activations["output"]) >= 3


----------------------------------------------------------------------------
\* the error of a node that looked up a tensor or a weight that is not there
UnknownTensor(r) ==
    /\ ~r.ok
    /\ r.msg \in {"Conv input not found", "Conv weight not found",
                  "MatMul input not found", "MatMul weight not found",
                  "Add input A not found", "Add input B not found",
                  "ReLU input not found", "Softmax input not found",
                  "Reshape input not found", "GlobalAveragePool input not found"}

\* a well-formed node one of whose declared inputs is neither in the
\* activation table nor in the weight table
MissingInput(known, m, node) ==
    /\ validate(node)
    /\ IsSome(get_operation(node))
    /\ ~(Names(node.inputs) \subseteq (known \cup DOMAIN m.weights))

\* the run of the first k nodes of the last run's model on its input
RunPrefix(k) ==
    ExecuteGraph(Insert(EmptyMap, InputName, call.held[2]),
                 [RunModel EXCEPT !.graph_nodes = SubSeq(@, 1, k)], 1)

\* the number of nodes the last run executed without error
Executed ==
    CHOOSE k \in 0..Len(RunModel.graph_nodes) :
        /\ ~IsSome(RunPrefix(k).err)
        /\ k = Len(RunModel.graph_nodes) \/ IsSome(RunPrefix(k + 1).err)

(* C29: a run on a non-empty input tensor executes the nodes in declared    *)
(* order.  The nodes executed                                               *)
(* are a prefix of the node sequence and the activation table holds         *)
(* exactly the input and the declared output name of each of them; a node   *)
(* one of whose declared inputs is absent from the activation table and     *)
(* from the weight table ends the run with an unknown-tensor error and      *)
(* neither it nor any later node stores a tensor.                           *)
C29_NodesRunInOrderUntilUnknownTensor ==
    (call.op = "execute_inference" /\ call.held[2] # <<>>)
    => LET nodes == RunModel.graph_nodes
           outputs(k) == {nodes[j].outputs[1] : j \in 1..k}
       IN  /\ DOMAIN activations = {InputName} \cup outputs(Executed)
           /\ \A k \in 1..Len(nodes) :
                  MissingInput({InputName} \cup outputs(k - 1), RunModel, nodes[k])
                  => /\ Executed < k
                     /\ Executed = k - 1 => UnknownTensor(reply)


----------------------------------------------------------------------------
(* C30: when a run executes every node and no tensor is stored under the    *)
(* name "output", the tensor that is classified is the one the last node    *)
(* produced, and no other entry of the activation table.                    *)
C30_FallbackIsLastProducedTensor ==
    (/\ call.op = "execute_inference"
     /\ Len(RunModel.graph_nodes) >= 1
     /\ Executed = Len(RunModel.graph_nodes)
     /\ "output" \notin DOMAIN activations)
    => reply = Classify(
           activations[RunModel.graph_nodes[Len(RunModel.graph_nodes)].outputs[1]])


----------------------------------------------------------------------------
\* the operation names the engine knows
Operations == {"Conv", "MatMul", "Add", "Relu", "Softmax", "Reshape", "GlobalAveragePool"}

(* C31: a node of an unknown operation is rejected when the graph is        *)
(* constructed, so every node of a model that the engine is run on has one  *)
(* of the seven known operations and no run ends with an unsupported-       *)
(* operation error.                                                         *)
C31_UnknownOperationNeverReachesExecution ==
    call.op = "execute_inference"
    => /\ \A k \in 1..Len(RunModel.graph_nodes) :
              RunModel.graph_nodes[k].op_type \in Operations
       /\ reply.msg # "Unsupported operation"


----------------------------------------------------------------------------
\* the tensor names a node reads from the activation table
TensorInputs(node) ==
    IF node.op_type = "Add" THEN {node.inputs[1], node.inputs[2]} ELSE {node.inputs[1]}

(* C32: no operation produces an output tensor from an empty input tensor,  *)
(* and Add produces none from inputs of different lengths: every node a     *)
(* run executed read only non-empty tensors, and an executed Add node read  *)
(* two tensors of the same length.                                          *)
C32_EmptyInputProducesNoOutput ==
    call.op = "execute_inference"
    => \A k \in 1..Executed :
           LET node == RunModel.graph_nodes[k]
               before == RunPrefix(k - 1).activations
           IN  /\ \A name \in TensorInputs(node) : Len(before[name]) > 0
               /\ node.op_type = "Add"
                    => Len(before[node.inputs[1]]) = Len(before[node.inputs[2]])


----------------------------------------------------------------------------
\* the last run was on a model whose first node is a Conv of the input
\* tensor, and that node stored its output
ConvRun ==
    /\ call.op = "execute_inference"
    /\ Len(RunModel.graph_nodes) >= 1
    /\ RunModel.graph_nodes[1].op_type = "Conv"
    /\ RunModel.graph_nodes[1].inputs[1] = InputName
    /\ Executed >= 1

(* C33: the output length of the Conv operation does not depend on the      *)
(* length of its input: the Conv output a run stored has the length that    *)
(* the operation gives, with the same weight, for every other non-empty     *)
(* input tensor.                                                            *)
C33_ConvOutputLengthIsFixed ==
    ConvRun
    => \A other \in InputTensors \ {<<>>} :
           Len(simplified_conv(other,
                   RunModel.weights[RunModel.graph_nodes[1].inputs[2]]).tensor)
               = Len(RunPrefix(1).activations[RunModel.graph_nodes[1].outputs[1]])


----------------------------------------------------------------------------
\* VeriChainModel::extract_patch_embedding_weights: the bytes it reads
extract_patch_embedding_weights(len) == (len \div 4)..((len \div 2) - 1)

\* VeriChainModel::extract_attention_weights: the bytes it reads
extract_attention_weights(len) == (len \div 3)..(((2 * len) \div 3) - 1)

\* VeriChainModel::extract_classifier_weights: the bytes it reads
extract_classifier_weights(len) == ((3 * len) \div 4)..(len - 1)

(* C34: the byte ranges from which the weight sections patch_embedding,     *)
(* attention and classifier of a loaded model are derived are pairwise      *)
(* disjoint.                                                                *)
C34_WeightRegionsAreDisjoint ==
    model.model_loaded
    => LET len == Len(Unwrap(model.model_data))
       IN  /\ extract_patch_embedding_weights(len) \cap extract_attention_weights(len) = {}
           /\ extract_patch_embedding_weights(len) \cap extract_classifier_weights(len) = {}
           /\ extract_attention_weights(len) \cap extract_classifier_weights(len) = {}


----------------------------------------------------------------------------
(* The default batch size on its own: the storage core with an assembly     *)
(* started for a declared count drawn from 0 .. MaxCount, of which the      *)
(* fragments 0 .. MaxChunkId are stored, and only the continue endpoint     *)
(* called, without a batch size.                                            *)

MaxCount == 400

InitBatch ==
    \E count \in 0..MaxCount, size \in 0..MaxOriginalSize :
      /\ build = "storage"
      /\ MODEL_CHUNKS = [i \in ChunkIds |-> None]
      /\ MODEL_METADATA = None
      /\ DETECTOR = NewDetector
      /\ storage =
            [NewStorage EXCEPT
               !.chunks = [i \in ChunkIds |->
                             Some([data |-> <<1>>, hash |-> calculate_sha256(<<1>>)])],
               !.metadata = Some([original_size |-> size, total_chunks |-> count]),
               !.upload_complete = (MaxChunkId + 1 >= count),
               !.total_chunks = count,
               !.uploaded_chunks = MaxChunkId + 1,
               !.initialization_started = TRUE]
      /\ model = NewModel
      /\ activations = EmptyMap
      /\ call = Call("init", "none")
      /\ reply = Ok("init", 0, 0)

NextBatch == \E loads \in BOOLEAN, oc \in BOOLEAN : handle_continue_initialization(None, loads, oc)

SpecBatch == InitBatch /\ [][NextBatch]_vars

(* C35: the default batch size of a continue call without a batch size is   *)
(* non-increasing in the declared fragment count (no smaller count gets a   *)
(* smaller batch), is capped, and lies in the validated range [1, 200].     *)
C35_DefaultBatchSizeNonIncreasing ==
    call.op = "handle_continue_initialization"
    => LET size == calculate_optimal_batch_size(storage.total_chunks)
       IN  /\ validate_batch_size(size)
           /\ size <= 100
           /\ \A smaller \in 0..storage.total_chunks :
                  calculate_optimal_batch_size(smaller) >= size


----------------------------------------------------------------------------
(* C36: with at least one fragment declared, the initialization status      *)
(* never reports is_initialized and is_streaming both true: the detector is *)
(* NotStarted (neither), InProgress (streaming only) or Complete            *)
(* (initialized only).                                                      *)
C36_InitializedAndStreamingExclusive ==
    (build = "stable" /\ Declared /\ declared_fragment_count >= 1)
    => ~(get_initialization_status.is_initialized /\ get_initialization_status.is_streaming)


----------------------------------------------------------------------------
(* C37: for every 32-bit batch size, with next_ordinal + batch_size         *)
(* wrapping modulo 2^32, an advance made in InProgress from a processed     *)
(* count within the declared count leaves a processed count that is not     *)
(* smaller than before and not greater than the declared count.             *)
C37_ProcessedCountMonotoneAndBounded ==
    [][ \A b \in BatchSizes :
          (/\ InProgress /\ ~Complete /\ Declared
           /\ next_ordinal <= declared_fragment_count
           /\ Advance(b))
          => /\ next_ordinal' >= next_ordinal
             /\ next_ordinal' <= declared_fragment_count ]_vars


----------------------------------------------------------------------------
(* C38: whenever the storage reports is_initialized with a non-empty        *)
(* artifact, the model is loaded:                                           *)
(* there is no state in which the assembly is complete, so that every       *)
(* further continue call is refused, while analysis is refused because the  *)
(* model is not loaded.                                                     *)
C38_InitializedImpliesModelLoaded ==
    (build = "storage" /\ storage.is_initialized /\ artifact # <<>>) => model.model_loaded


----------------------------------------------------------------------------
(* C39: when the initialization endpoint accepts the start of the assembly  *)
(* for N >= 1 declared fragments, every ordinal 0 .. N-1 is retrievable     *)
(* from the fragment store, so that no later advance can miss one of them.  *)
C39_UploadCompleteMeansAllRetrievable ==
    [][ (/\ InitializationEndpoint
         /\ ~InProgress /\ ~Complete
         /\ InProgress' \/ Complete'
         /\ declared_fragment_count >= 1)
          => Absent(0, declared_fragment_count) = {} ]_vars

====
